---- MODULE Spec2Model ----
(***************************************************************************)
(* Model of the HTTP backends of the repository:                           *)
(*   api/backend.py            POST /api/learn, POST /api/expand-step      *)
(*   api/backend_simplified.py POST /api/learn (plan only)                 *)
(*   api/index.py              POST /api/chat, POST /api/generate-image    *)
(*                                                                         *)
(* The OpenAI API and the web are the environment: every AI reply and      *)
(* every HTTP answer is an input drawn from a small set.  A text is a      *)
(* sequence of atoms (short strings); the code never splits an atom, so    *)
(* every literal the code tests for ("http", "valid", a digit, a blank)    *)
(* is an atom of its own.  A JSON value is a tagged record.                *)
(***************************************************************************)
EXTENDS Integers, Sequences, FiniteSets, TLC

(* ------------------------------ bounds --------------------------------- *)
\* longest resource list an AI reply carries
MaxRes == 2
\* longest plan an AI reply carries
MaxPlan == 2
\* the longest reply text clean_json_response is applied to, in atoms
MaxText == 4

(* ------------------------------- texts --------------------------------- *)
Blank == " "
DigitValue == [c \in {"0", "1", "2", "3", "4", "5", "6", "7", "8", "9"} |->
                 CASE c = "0" -> 0 [] c = "1" -> 1 [] c = "2" -> 2 [] c = "3" -> 3
                   [] c = "4" -> 4 [] c = "5" -> 5 [] c = "6" -> 6 [] c = "7" -> 7
                   [] c = "8" -> 8 [] c = "9" -> 9]
IsDigit(c) == c \in DOMAIN DigitValue

\* str.startswith
StartsWith(s, p) == Len(s) >= Len(p) /\ SubSeq(s, 1, Len(p)) = p

RECURSIVE LStrip(_)
LStrip(s) == IF s # <<>> /\ Head(s) = Blank THEN LStrip(Tail(s)) ELSE s

RECURSIVE RStrip(_)
RStrip(s) == IF s # <<>> /\ s[Len(s)] = Blank THEN RStrip(SubSeq(s, 1, Len(s) - 1)) ELSE s

\* str.strip
Strip(s) == RStrip(LStrip(s))

\* str.lower, on the atoms the model uses
LowerAtom(c) == CASE c = "Valid" -> "valid"
                  [] c = "VALID" -> "valid"
                  [] c = "OK" -> "ok"
                  [] c = "Steps" -> "steps"
                  [] c = "Safety" -> "safety"
                  [] OTHER -> c
Lower(s) == [i \in 1..Len(s) |-> LowerAtom(s[i])]

\* re.sub(r'[.,;:]+$', '', s): drop the trailing run of . , ; :
RECURSIVE DropTrailingPunct(_)
DropTrailingPunct(s) ==
    IF s # <<>> /\ s[Len(s)] \in {".", ",", ";", ":"}
    THEN DropTrailingPunct(SubSeq(s, 1, Len(s) - 1))
    ELSE s

\* re.sub(r'\s+', ' ', s): every run of blanks becomes one blank
RECURSIVE CollapseBlanks(_)
CollapseBlanks(s) ==
    IF Len(s) < 2 THEN s
    ELSE IF s[1] = Blank /\ s[2] = Blank THEN CollapseBlanks(Tail(s))
    ELSE <<s[1]>> \o CollapseBlanks(Tail(s))

\* the value of the digit run that starts at position i of s
RECURSIVE DigitRun(_, _, _)
DigitRun(s, i, acc) ==
    IF i <= Len(s) /\ IsDigit(s[i])
    THEN DigitRun(s, i + 1, 10 * acc + DigitValue[s[i]])
    ELSE acc

\* re.search(r'(\d+)', s): the first digit run, as an int; -1 when there is none
RECURSIVE FirstNumber(_)
FirstNumber(s) ==
    IF s = <<>> THEN -1
    ELSE IF IsDigit(Head(s)) THEN DigitRun(s, 1, 0)
    ELSE FirstNumber(Tail(s))

(* ---------------------------- JSON values ------------------------------ *)
Null == [t |-> "null"]
Num(n) == [t |-> "num", v |-> n]
Str(s) == [t |-> "str", v |-> s]
Bool(b) == [t |-> "bool", v |-> b]
\* marks a key the reply does not carry; never stored in an object
Absent == [t |-> "absent"]

\* Python truthiness of a JSON value
Truthy(x) == CASE x.t = "null" -> FALSE
               [] x.t = "num" -> x.v # 0
               [] x.t = "str" -> x.v # <<>>
               [] x.t = "bool" -> x.v
               [] OTHER -> FALSE

\* dict.get(k, default)
Get(d, k, default) == IF k \in DOMAIN d THEN d[k] ELSE default

\* the object whose keys are those of choice that are not Absent
MkObj(choice) == [k \in {k \in DOMAIN choice : choice[k] # Absent} |-> choice[k]]

\* all sequences over S of length at most n
BoundedSeq(S, n) == UNION {[1..k -> S] : k \in 0..n}

(* --------------------------- request inputs ---------------------------- *)
\* topics a client posts to /api/learn, with what the text asks for
\* (askSteps, askRes: 0 when the text names no number)
LearnBodies ==
    { [topic |-> <<>>, askSteps |-> 0, askRes |-> 0],
      [topic |-> <<Blank, Blank>>, askSteps |-> 0, askRes |-> 0],
      [topic |-> <<"python">>, askSteps |-> 0, askRes |-> 0],
      [topic |-> <<"python", Blank, "2", Blank, "steps">>, askSteps |-> 2, askRes |-> 0],
      [topic |-> <<"python", Blank, "2", Blank, "resources", ".">>, askSteps |-> 0, askRes |-> 2],
      [topic |-> <<"python", Blank, "2", "0", Blank, "resources">>, askSteps |-> 0, askRes |-> 20] }

\* prompts a client posts to /api/generate-image
Prompts == { <<>>, <<Blank, "ab", Blank>>, <<"cat">>, <<"test">>,
             <<"sunset", Blank, "over", Blank, "hills">>,
             <<"x997", "cat">>, <<"x998", "cat">> }

NoBody == [topic |-> <<>>, askSteps |-> 0, askRes |-> 0]

(* ------------------------------ the web -------------------------------- *)
\* What the environment answers when a URL is fetched.  The answer is fixed
\* per URL for the length of a request:
\*   fetch   "response" | "timeout" | "status_error" | "crash"
\*   status  the HTTP status of the response
\*   html    content-type contains text/html
\*   length  len(response.text)
\*   yt      the AI's answer to the YouTube availability prompt
\*   verdict the AI's answer to the page-content prompt
UrlA == <<"http", "s://a.example">>
UrlB == <<"http", "://b.example">>
UrlFtp == <<"ftp", "://c.example">>

WebAnswer(url) ==
    CASE url = UrlA -> [fetch |-> "response", status |-> 200, html |-> TRUE, length |-> 50000,
                        yt |-> <<"AVAILABLE">>, verdict |-> <<"VALID">>]
      [] url = UrlB -> [fetch |-> "response", status |-> 404, html |-> TRUE, length |-> 300,
                        yt |-> <<"AVAILABLE">>, verdict |-> <<"VALID">>]
      [] OTHER -> [fetch |-> "timeout", status |-> 0, html |-> FALSE, length |-> 0,
                   yt |-> <<"AVAILABLE">>, verdict |-> <<"VALID">>]

\* the AI call itself raises when it answers this
AiRaises == <<"#raise">>

\* str.upper on the verdict atoms
UpperAtom(c) == CASE c = "valid" -> "VALID"
                  [] c = "invalid" -> "INVALID"
                  [] c = "unavailable" -> "UNAVAILABLE"
                  [] c = "available" -> "AVAILABLE"
                  [] OTHER -> c
Upper(s) == [i \in 1..Len(s) |-> UpperAtom(s[i])]

\* "youtube.com" in url.lower() or "youtu.be" in url.lower()
IsYoutube(url) == \E i \in 1..Len(url) : url[i] \in {"youtube.com", "youtu.be"}

\* len(response.text[:10000])
ContentSize(w) == IF w.length < 10000 THEN w.length ELSE 10000

(* ---------------------------- validate_url ----------------------------- *)
NoneVal == [t |-> "none"]
Raised == [t |-> "raise"]
IsDict(r) == "t" \notin DOMAIN r

\* the dict validate_url returns for an accepted resource
Accepted(resource, topic, url) ==
    [title |-> Get(resource, "title", Str(topic \o <<" Resource">>)),
     url |-> url,
     description |-> Get(resource, "description", Str(<<"Learn about ">> \o topic))]

\* mutant: a content check that raises rejects the page
HtmlCheck_Strict(url, w) ==
    LET content ==
          IF w.verdict = AiRaises THEN [r |-> "reject", calls |-> 1]
          ELSE IF StartsWith(Strip(Upper(w.verdict)), <<"INVALID">>)
               THEN [r |-> "reject", calls |-> 1]
               ELSE [r |-> "accept", calls |-> 1]
    IN
    IF IsYoutube(url)
    THEN IF ContentSize(w) < 20000 THEN [r |-> "reject", calls |-> 0]
         ELSE IF w.yt = AiRaises THEN [r |-> "reject", calls |-> 1]
         ELSE IF StartsWith(Strip(Upper(w.yt)), <<"UNAVAILABLE">>)
              THEN [r |-> "reject", calls |-> 1]
              ELSE [r |-> content.r, calls |-> content.calls + 1]
    ELSE content

\* the checks of an HTML page: "reject" (return None), "accept", or
\* "error" (the AI call raised: the inner except passes, the page is accepted);
\* calls is the number of AI calls made
HtmlCheck(url, w) ==
    LET content ==
          IF w.verdict = AiRaises THEN [r |-> "error", calls |-> 1]
          ELSE IF StartsWith(Strip(Upper(w.verdict)), <<"INVALID">>)
               THEN [r |-> "reject", calls |-> 1]
               ELSE [r |-> "accept", calls |-> 1]
    IN
    IF IsYoutube(url)
    THEN IF ContentSize(w) < 20000 THEN [r |-> "reject", calls |-> 0]
         ELSE IF w.yt = AiRaises THEN [r |-> "error", calls |-> 1]
         ELSE IF StartsWith(Strip(Upper(w.yt)), <<"UNAVAILABLE">>)
              THEN [r |-> "reject", calls |-> 1]
              ELSE [r |-> content.r, calls |-> content.calls + 1]
    ELSE content

\* validate_url when the web answers w to the fetch of the URL
ValidateUrlAt(resource, topic, w) ==
    LET url == Get(resource, "url", Str(<<>>)) IN
    IF ~Truthy(url) THEN NoneVal
    ELSE IF url.t # "str" THEN Raised
    ELSE IF ~StartsWith(url.v, <<"http">>) THEN NoneVal
    ELSE CASE w.fetch = "timeout" -> Accepted(resource, topic, url)
           [] w.fetch = "status_error" ->
                IF 200 <= w.status /\ w.status < 400
                THEN Accepted(resource, topic, url) ELSE NoneVal
           [] w.fetch = "crash" -> NoneVal
           [] OTHER ->
                IF w.status >= 400 THEN NoneVal
                ELSE IF w.html /\ HtmlCheck(url.v, w).r = "reject" THEN NoneVal
                ELSE Accepted(resource, topic, url)

\* what the web answers for the URL of this resource
WebOf(resource) ==
    LET url == Get(resource, "url", Str(<<>>)) IN
    IF url.t = "str" THEN WebAnswer(url.v) ELSE WebAnswer(<<>>)

ValidateUrl(resource, topic) == ValidateUrlAt(resource, topic, WebOf(resource))

\* does validate_url fetch the URL of this resource
Fetches(resource) ==
    LET url == Get(resource, "url", Str(<<>>)) IN
    Truthy(url) /\ url.t = "str" /\ StartsWith(url.v, <<"http">>)

\* the number of AI calls validate_url makes for this resource
UrlAiCallsAt(resource, w) ==
    IF ~Fetches(resource) THEN 0
    ELSE IF w.fetch # "response" \/ w.status >= 400 \/ ~w.html THEN 0
    ELSE HtmlCheck(resource["url"].v, w).calls
UrlAiCalls(resource) == UrlAiCallsAt(resource, WebOf(resource))

(* ------------------------------ AI replies ----------------------------- *)
\* resource dicts an AI reply may carry
ResA == [title |-> Str(<<"Site A">>), url |-> Str(UrlA), description |-> Str(<<"about A">>)]
ResB == [url |-> Str(UrlB)]
ResFtp == [title |-> Str(<<"Site C">>), url |-> Str(UrlFtp)]
ResNoUrl == [title |-> Str(<<"Site D">>)]
ResourcePool == {ResA, ResB, ResFtp, ResNoUrl}
ResourceLists == BoundedSeq(ResourcePool, MaxRes)

\* plan steps an AI reply may carry
StepFull == [title |-> Str(<<"Intro">>), description |-> Str(<<"read">>)]
StepBare == [title |-> Str(<<"Intro">>)]
StepPool == {StepFull, StepBare}
List(l) == [t |-> "list", v |-> l]

\* the "plan" value of a reply: absent, null, a text, or a list of steps
PlanValues == {Absent, Null, Str(<<"just practise">>)}
                \cup {List(l) : l \in BoundedSeq(StepPool, MaxPlan)}
\* the "resources" value of a reply: absent, null, or a list of resources
ResourceValues == {Absent, Null} \cup {List(l) : l \in ResourceLists}

\* how an AI call that is to answer JSON ends:
\*   "raise"     call_ai raises
\*   "garbage"   the reply is no JSON, and holds no JSON object
\*   "embedded"  the reply is no JSON, but holds a JSON object in other text
\*   "nonobject" the reply is JSON, but no object (a list)
\*   "object"    the reply is a JSON object
ReplyKinds == {"raise", "garbage", "embedded", "nonobject", "object"}

\* backend.py parse_json_response: json.loads of the cleaned reply
ParseStrict(kind) == IF kind \in {"nonobject", "object"} THEN "ok" ELSE "error"
\* backend_simplified.py parse_json_response: json.loads, else the {...} in it
ParseLenient(kind) == IF kind \in {"nonobject", "object", "embedded"} THEN "ok" ELSE "error"

\* the truthiness of a JSON value, lists included
TruthyValue(x) == IF x.t = "list" THEN x.v # <<>> ELSE Truthy(x)

(* ------------------------------- state --------------------------------- *)
VARIABLES
    route,              \* [app, path]: the module and endpoint serving the request
    apiKey,             \* os.getenv("OPENAI_API_KEY") is set and not empty
    body,               \* the request body
    pc,                 \* where the handler stands
    status,             \* HTTP status of the response, 0 while there is none
    detail,             \* detail of the HTTPException raised
    data,               \* extract_validate_and_prepare_topic: the AI reply
    clean_topic, num_resources, resource_message, num_steps,
    is_valid, validation_message,
                        \* what extract_validate_and_prepare_topic returned
    gen,                \* the reply of the plan-generating AI call
    plan, examples,     \* what the generation returned
    result,             \* body of a 200 response of the other endpoints
    calls               \* outbound calls made for this request, by kind

vars == <<route, apiKey, body, pc, status, detail, data, clean_topic, num_resources,
          resource_message, num_steps, is_valid, validation_message, gen, plan,
          examples, result, calls>>

extracted == <<clean_topic, num_resources, resource_message, num_steps, is_valid,
               validation_message>>

CallKinds == {"extract", "generate", "fallback", "page_check", "fetch", "scrape",
              "gather", "plan", "expand", "chat", "image_check", "image_generate",
              "image_download"}
AiKinds == {"extract", "generate", "fallback", "page_check", "plan", "expand", "chat",
            "image_check", "image_generate"}
HttpKinds == {"fetch", "scrape", "image_download"}
NoCalls == [k \in CallKinds |-> 0]
Called(k, n) == calls' = [calls EXCEPT ![k] = @ + n]

Routes == { [app |-> "backend", path |-> "learn"],
            [app |-> "backend", path |-> "expand-step"],
            [app |-> "simplified", path |-> "learn"],
            [app |-> "index", path |-> "chat"],
            [app |-> "index", path |-> "generate-image"] }

KeyMissingMsg == <<"OPENAI_API_KEY not configured">>
InvalidTopicMsg == <<"This doesn't seem like a valid learning topic. Please enter something specific you want to learn.">>
UnableMsg == <<"Unable to validate this topic. Please enter a clear, learnable subject, skill, or concept.">>
NoText == <<>>
NoData == [kind |-> "none"]

Init ==
    /\ route = [app |-> "backend", path |-> "learn"]
    /\ apiKey = TRUE
    /\ body = NoBody
    /\ pc = "idle"
    /\ status = 0
    /\ detail = NoText
    /\ data = NoData
    /\ clean_topic = NoText
    /\ num_resources = 5
    /\ resource_message = NoText
    /\ num_steps = Null
    /\ is_valid = Bool(TRUE)
    /\ validation_message = NoText
    /\ gen = NoData
    /\ plan = List(<<>>)
    /\ examples = <<>>
    /\ result = NoData
    /\ calls = NoCalls

(* --------------- extract_validate_and_prepare_topic (backend.py) ------- *)
\* int(x) of a truthy JSON value: [ok, v]
AllDigits(s) == s # <<>> /\ \A i \in 1..Len(s) : IsDigit(s[i])
IntOf(x) == CASE x.t = "num" -> [ok |-> TRUE, v |-> x.v]
              [] x.t = "bool" -> [ok |-> TRUE, v |-> IF x.v THEN 1 ELSE 0]
              [] x.t = "str" /\ AllDigits(Strip(x.v)) ->
                    [ok |-> TRUE, v |-> DigitRun(Strip(x.v), 1, 0)]
              [] OTHER -> [ok |-> FALSE, v |-> 0]

\* re.sub(r'[.,;:]+$', '', topic).strip(), then re.sub(r'\s+', ' ', ...)
FallbackTopic(topic) == CollapseBlanks(Strip(DropTrailingPunct(topic)))

\* mutant: the except branch lets the topic through
ExtractFailed_Lenient(topic, nr, msg, ns) ==
    [clean_topic |-> FallbackTopic(topic), num_resources |-> nr, message |-> Strip(msg),
     num_steps |-> ns, is_valid |-> Bool(TRUE), validation_message |-> NoText]

\* what the except branch returns; num_resources, message and num_steps keep
\* the values they had when the exception was raised
ExtractFailed(topic, nr, msg, ns) ==
    [clean_topic |-> FallbackTopic(topic), num_resources |-> nr, message |-> Strip(msg),
     num_steps |-> ns, is_valid |-> Bool(FALSE), validation_message |-> UnableMsg]

\* mutant: the is_valid of the reply is taken as it is
StrictValid_Trusting(iv, vmsg) == iv

\* lines 711-715: a reply that says is_valid true and yet carries a message
\* other than "valid" or "ok" counts as invalid
StrictValid(iv, vmsg) ==
    IF vmsg # <<>> /\ TruthyValue(iv) /\ Lower(vmsg) \notin {<<>>, <<"valid">>, <<"ok">>}
    THEN Bool(FALSE) ELSE iv

ExtractBackend(topic, reply) ==
    IF ParseStrict(reply.kind) = "error" \/ reply.kind # "object"
    THEN ExtractFailed(topic, 5, NoText, Null)
    ELSE
    LET d == reply.data
        et == Get(d, "topic", Null)
        ct0 == IF Truthy(et) THEN Strip(et.v) ELSE FallbackTopic(topic)
        ct == IF ct0 = <<>> THEN Strip(topic) ELSE ct0
        nr == Get(d, "num_resources", Null)
        rm == Get(d, "resource_message", Str(<<>>))
        requested == IntOf(nr)
        rmsg == Strip(rm.v)
        message == IF Truthy(nr) /\ rmsg # <<>> THEN rmsg ELSE NoText
        numres == IF ~Truthy(nr) THEN 5
                  ELSE IF rmsg # <<>> /\ FirstNumber(rmsg) >= 0 THEN FirstNumber(rmsg)
                  ELSE requested.v
        ns == Get(d, "num_steps", Null)
        steps == IF Truthy(ns) THEN Num(IntOf(ns).v) ELSE Null
        iv == Get(d, "is_valid", Bool(FALSE))
        vm == Get(d, "validation_message", Str(<<>>))
        vmsg == Strip(vm.v)
    IN
    IF Truthy(nr) /\ ~requested.ok THEN ExtractFailed(topic, 5, NoText, Null)
    ELSE IF Truthy(nr) /\ rm.t # "str" THEN ExtractFailed(topic, 5, NoText, Null)
    ELSE IF Truthy(ns) /\ ~IntOf(ns).ok THEN ExtractFailed(topic, numres, message, Null)
    ELSE IF vm.t # "str" THEN ExtractFailed(topic, numres, message, steps)
    ELSE [clean_topic |-> ct, num_resources |-> numres, message |-> Strip(message),
          num_steps |-> steps,
          is_valid |-> StrictValid(iv, vmsg),
          validation_message |-> vmsg]

\* the JSON objects the extraction call may answer
ExtractObjects ==
    { MkObj([topic |-> t, num_resources |-> nr, resource_message |-> rm, num_steps |-> ns,
             is_valid |-> iv, validation_message |-> vm]) :
        t \in {Absent, Str(<<"python">>)},
        nr \in {Absent, Num(1), Num(2), Num(20), Str(<<"many">>)},
        rm \in {Absent, Str(<<"capped", Blank, "at", Blank, "1", "5">>), Null},
        ns \in {Absent, Num(2)},
        iv \in {Absent, Bool(TRUE), Bool(FALSE)},
        vm \in {Absent, Str(<<Blank>>), Str(<<Blank, "OK">>),
                Str(<<"not", Blank, "learnable">>), Null} }

ExtractReplies ==
    {[kind |-> k] : k \in ReplyKinds \ {"object"}}
      \cup {[kind |-> "object", data |-> d] : d \in ExtractObjects}

(* ------------------- generate_plan_and_resources (backend.py) ---------- *)
\* mutant: the slice keeps the whole list
Take_All(s, n) == s

\* s[:n] for n >= 0
Take(s, n) == SubSeq(s, 1, IF n < Len(s) THEN n ELSE Len(s))

\* s[n:] for n >= 0: what resources[:num_examples] leaves out
Surplus(s, n) == IF n < Len(s) THEN SubSeq(s, n + 1, Len(s)) ELSE <<>>

\* the hardcoded plan of backend.py
DefaultPlan(topic) ==
    List(<< [title |-> Str(<<"Step 1: Research ">> \o topic),
             description |-> Str(<<"Start by researching the basics of ">> \o topic \o <<" online.">>)],
            [title |-> Str(<<"Step 2: Find Examples">>),
             description |-> Str(<<"Look for real-world examples of ">> \o topic
                                   \o <<" to understand practical applications.">>)],
            [title |-> Str(<<"Step 3: Practice">>),
             description |-> Str(<<"Try applying what you've learned about ">> \o topic
                                   \o <<" through hands-on practice.">>)] >>)

\* mutant: the reply's plan is returned as it is
PlanOrDefault_NoFallback(p, topic) == p

\* "Fallback if plan is empty": the plan of the reply, or the hardcoded one
PlanOrDefault(p, topic) == IF TruthyValue(p) THEN p ELSE DefaultPlan(topic)

\* min(3, num_examples) if num_examples < 3 else 3
MinResources(num_examples) == IF num_examples < 3 THEN num_examples ELSE 3

\* the results of asyncio.gather(*[validate_url(r, topic) for r in rs]) that
\* are dicts, in order
RECURSIVE CollectValid(_, _)
CollectValid(rs, topic) ==
    IF rs = <<>> THEN <<>>
    ELSE LET r == ValidateUrl(Head(rs), topic) IN
         (IF IsDict(r) THEN <<r>> ELSE <<>>) \o CollectValid(Tail(rs), topic)

\* the fetches and the AI calls the validations of rs make
RECURSIVE FetchTotal(_)
FetchTotal(rs) ==
    IF rs = <<>> THEN 0
    ELSE (IF Fetches(Head(rs)) THEN 1 ELSE 0) + FetchTotal(Tail(rs))
RECURSIVE PageCheckTotal(_)
PageCheckTotal(rs) ==
    IF rs = <<>> THEN 0 ELSE UrlAiCalls(Head(rs)) + PageCheckTotal(Tail(rs))

\* calls made by one gather over the validations of rs
AfterGather(c, rs) ==
    [c EXCEPT !["gather"] = @ + 1,
              !["fetch"] = @ + FetchTotal(rs),
              !["page_check"] = @ + PageCheckTotal(rs)]

Urls(exs) == {exs[i].url : i \in 1..Len(exs)}

\* mutant: any URL will do
HasHttpUrl_AnyUrl(r) == Truthy(Get(r, "url", Null))

\* r.get('url') and r.get('url').startswith('http')
HasHttpUrl(r) == LET u == Get(r, "url", Null) IN Truthy(u) /\ StartsWith(u.v, <<"http">>)

\* [r for r in rs if r.get('url') and r.get('url').startswith('http')
\*    and r.get('url') not in existing]
RECURSIVE NewResources(_, _)
NewResources(rs, existing) ==
    IF rs = <<>> THEN <<>>
    ELSE (IF HasHttpUrl(Head(rs)) /\ Head(rs)["url"] \notin existing
          THEN <<Head(rs)>> ELSE <<>>) \o NewResources(Tail(rs), existing)

\* the loop that includes unvalidated resources until the minimum is reached
RECURSIVE FillUnvalidated(_, _, _, _, _)
FillUnvalidated(exs, rs, existing, minimum, topic) ==
    IF rs = <<>> \/ Len(exs) >= minimum THEN exs
    ELSE LET r == Head(rs) IN
         IF HasHttpUrl(r) /\ r["url"] \notin existing
         THEN FillUnvalidated(
                  Append(exs, [title |-> Get(r, "title", Str(topic \o <<" Resource">>)),
                               url |-> r["url"],
                               description |-> Get(r, "description", Str(<<"Learn about ">> \o topic))]),
                  Tail(rs), existing \cup {r["url"]}, minimum, topic)
         ELSE FillUnvalidated(exs, Tail(rs), existing, minimum, topic)

\* the "try once more with a larger batch" block: the examples after it, and
\* the resources it validated (new_resources; empty when it raised early)
FallbackBatch(exs, reply, minimum, topic) ==
    IF reply.kind # "list" THEN [examples |-> exs, validated |-> <<>>, gathered |-> FALSE]
    ELSE LET existing == Urls(exs)
             new_resources == NewResources(reply.items, existing)
             after == exs \o CollectValid(new_resources, topic)
         IN [examples |-> IF Len(after) < minimum
                          THEN FillUnvalidated(after, new_resources, existing, minimum, topic)
                          ELSE after,
             validated |-> new_resources, gathered |-> TRUE]

\* what the fallback resource call may answer: it raises, is no JSON, is a
\* JSON object instead of a list, or is a list of resources
FallbackReplies ==
    {[kind |-> k] : k \in {"raise", "garbage", "object"}}
      \cup {[kind |-> "list", items |-> l] : l \in ResourceLists}

\* what the combined plan-and-resources call may answer.  The code handles
\* the plan and the resources of a reply apart from each other, so the object
\* replies vary the one with the other taken from a short list.
CorePlans == {Absent, List(<<StepFull>>)}
CoreResources == {Absent, List(<<ResA>>)}
GenerateReplies ==
    {[kind |-> k] : k \in ReplyKinds \ {"object"}}
      \cup {[kind |-> "object", plan |-> pl, resources |-> rs] :
              pl \in PlanValues, rs \in CoreResources}
      \cup {[kind |-> "object", plan |-> pl, resources |-> rs] :
              pl \in CorePlans, rs \in ResourceValues}

\* lines 363-372 raise: the reply does not parse, is no object, or its
\* resources are no list
GenerateRaises(reply) ==
    \/ reply.kind # "object"
    \/ ParseStrict(reply.kind) = "error"
    \/ reply.resources = Null

\* the "plan" of the reply, [] when absent
ReplyPlan(reply) == IF reply.plan = Absent THEN List(<<>>) ELSE reply.plan
ReplyResources(reply) == IF reply.resources = Absent THEN <<>> ELSE reply.resources.v

(* ----------------- the DuckDuckGo scrape of the except branch ---------- *)
\* urllib.parse.unquote on the atoms the model uses
UnquoteAtom(c) == CASE c = "%3A%2F%2Fb.example" -> "://b.example"
                    [] c = "%2Frelative" -> "/relative"
                    [] OTHER -> c
Unquote(s) == [i \in 1..Len(s) |-> UnquoteAtom(s[i])]

Contains(s, atom) == \E i \in 1..Len(s) : s[i] = atom
IndexOf(s, atom) == CHOOSE i \in 1..Len(s) : s[i] = atom /\ \A j \in 1..(i - 1) : s[j] # atom

\* url.split('uddg=')[1].split('&')[0]
AfterUddg(url) ==
    LET rest == SubSeq(url, IndexOf(url, "uddg=") + 1, Len(url))
        cut == IF Contains(rest, "uddg=") THEN IndexOf(rest, "uddg=") - 1 ELSE Len(rest)
        part == SubSeq(rest, 1, cut)
    IN IF Contains(part, "&") THEN SubSeq(part, 1, IndexOf(part, "&") - 1) ELSE part

\* the URL an anchor's href stands for, <<>> when the anchor is skipped
CleanHref(href) ==
    IF StartsWith(href, <<"/l/?">>) \/ Contains(href, "uddg=")
    THEN IF Contains(href, "uddg=")
         THEN LET u == Unquote(AfterUddg(href)) IN
              IF StartsWith(u, <<"http">>) THEN u ELSE <<>>
         ELSE <<>>
    ELSE href

\* the loop over the result anchors
RECURSIVE ScrapeLoop(_, _, _, _)
ScrapeLoop(exs, anchors, minimum, topic) ==
    IF anchors = <<>> \/ Len(exs) >= minimum THEN exs
    ELSE LET a == Head(anchors)
             url == CleanHref(a.href)
         IN IF a.text = <<>> \/ a.href = <<>> \/ url = <<>>
            THEN ScrapeLoop(exs, Tail(anchors), minimum, topic)
            ELSE IF StartsWith(url, <<"http">>) /\ Str(url) \notin Urls(exs)
            THEN ScrapeLoop(
                     Append(exs, [title |-> Str(Take(a.text, 100)),
                                  url |-> Str(url),
                                  description |-> Str(<<"Learn more about ">> \o topic
                                                        \o <<" with this resource">>)]),
                     Tail(anchors), minimum, topic)
            ELSE ScrapeLoop(exs, Tail(anchors), minimum, topic)

AnchorPool ==
    { [text |-> <<"Site A">>, href |-> UrlA],
      [text |-> <<"Site B">>,
       href |-> <<"//duckduckgo.com/l/?", "uddg=", "http", "%3A%2F%2Fb.example", "&", "rut=1">>],
      [text |-> <<>>, href |-> UrlA],
      [text |-> <<"Site R">>, href |-> <<"/l/?", "uddg=", "%2Frelative">>] }

\* the search request raises (network error, raise_for_status), or answers a
\* page with result anchors
ScrapeOutcomes ==
    {[kind |-> "raise"]}
      \cup {[kind |-> "page", anchors |-> l] : l \in BoundedSeq(AnchorPool, MaxRes)}

(* ------------------------------ actions -------------------------------- *)
Respond(code, text) == status' = code /\ detail' = text /\ pc' = "done"

\* a client posts a request
Receive ==
    /\ pc = "idle"
    /\ \E r \in Routes, key \in BOOLEAN :
         /\ route' = r
         /\ apiKey' = key
         /\ body' \in (CASE r.path = "learn" -> LearnBodies
                          [] r.path = "generate-image" -> {[prompt |-> q] : q \in Prompts}
                          [] OTHER -> {NoBody})
    /\ pc' = "handler"
    /\ UNCHANGED <<status, detail, data, extracted, gen, plan, examples, result, calls>>

\* the response is sent; the request's state is dropped
Finish ==
    /\ pc = "done"
    /\ pc' = "idle"
    /\ route' = [app |-> "backend", path |-> "learn"]
    /\ apiKey' = TRUE
    /\ body' = NoBody
    /\ status' = 0 /\ detail' = NoText
    /\ data' = NoData /\ gen' = NoData /\ result' = NoData
    /\ clean_topic' = NoText /\ num_resources' = 5 /\ resource_message' = NoText
    /\ num_steps' = Null /\ is_valid' = Bool(TRUE) /\ validation_message' = NoText
    /\ plan' = List(<<>>) /\ examples' = <<>>
    /\ calls' = NoCalls

\* mutant: the handlers do not look at the key
KeyConfigured_Always == TRUE

\* os.getenv("OPENAI_API_KEY") is truthy
KeyConfigured == apiKey

\* every POST handler starts with the check of the API key
KeyMissing ==
    /\ pc = "handler"
    /\ ~KeyConfigured
    /\ Respond(500, KeyMissingMsg)
    /\ UNCHANGED <<route, apiKey, body, data, extracted, gen, plan, examples, result, calls>>

\* backend.py create_learning_experience, lines 739-742
LearnExtract ==
    /\ pc = "handler" /\ KeyConfigured
    /\ route = [app |-> "backend", path |-> "learn"]
    /\ \E reply \in ExtractReplies :
         LET r == ExtractBackend(Strip(body.topic), reply) IN
         /\ data' = reply
         /\ clean_topic' = r.clean_topic
         /\ num_resources' = r.num_resources
         /\ resource_message' = r.message
         /\ num_steps' = r.num_steps
         /\ is_valid' = r.is_valid
         /\ validation_message' = r.validation_message
    /\ Called("extract", 1)
    /\ pc' = "gate"
    /\ UNCHANGED <<route, apiKey, body, status, detail, gen, plan, examples, result>>

\* mutant: the handler goes on whatever the validation said
Rejected_Never(valid) == FALSE

\* "if not is_valid"
Rejected(valid) == ~TruthyValue(valid)

\* create_learning_experience, lines 744-748 (both backends); what the
\* handler does not read again (the reply of the extraction, the validation
\* message) is dropped on the way on
LearnGate ==
    /\ pc = "gate"
    /\ IF Rejected(is_valid)
       THEN /\ Respond(400, IF validation_message # <<>> THEN validation_message
                            ELSE InvalidTopicMsg)
            /\ UNCHANGED <<data, validation_message>>
       ELSE /\ pc' = "generate"
            /\ data' = NoData
            /\ validation_message' = NoText
            /\ UNCHANGED <<status, detail>>
    /\ UNCHANGED <<route, apiKey, body, clean_topic, num_resources, resource_message,
                   num_steps, is_valid, gen, plan, examples, result, calls>>

\* generate_plan_and_resources, lines 314-400; gen keeps of the reply its
\* kind, its plan and, in spare, how many of the resources past the first
\* num_examples would pass validate_url
GenerateMain ==
    /\ pc = "generate" /\ route.app = "backend"
    /\ \E reply \in GenerateReplies :
         IF GenerateRaises(reply)
         THEN /\ gen' = [kind |-> reply.kind,
                         plan |-> IF reply.kind = "object" THEN reply.plan ELSE Absent]
              /\ plan' = DefaultPlan(clean_topic)
              /\ examples' = <<>>
              /\ Called("generate", 1)
              /\ pc' = "except"
         ELSE LET batch == Take(ReplyResources(reply), num_resources)
                  valid == CollectValid(batch, clean_topic)
                  spare == CollectValid(Surplus(ReplyResources(reply), num_resources),
                                        clean_topic)
              IN /\ gen' = [kind |-> reply.kind, plan |-> reply.plan, spare |-> Len(spare)]
                 /\ plan' = PlanOrDefault(ReplyPlan(reply), clean_topic)
                 /\ examples' = valid
                 /\ calls' = AfterGather([calls EXCEPT !["generate"] = @ + 1], batch)
                 /\ pc' = IF Len(valid) < MinResources(num_resources)
                          THEN "fallback" ELSE "respond"
    /\ UNCHANGED <<route, apiKey, body, status, detail, data, extracted, result>>

\* generate_plan_and_resources, lines 402-465
GenerateFallback ==
    /\ pc = "fallback"
    /\ \E reply \in FallbackReplies :
         LET b == FallbackBatch(examples, reply, MinResources(num_resources), clean_topic) IN
         /\ examples' = b.examples
         /\ calls' = IF b.gathered
                     THEN AfterGather([calls EXCEPT !["fallback"] = @ + 1], b.validated)
                     ELSE [calls EXCEPT !["fallback"] = @ + 1]
    /\ pc' = "respond"
    /\ UNCHANGED <<route, apiKey, body, status, detail, data, extracted, gen, plan, result>>

\* generate_plan_and_resources, lines 467-534
ExceptScrape ==
    /\ pc = "except"
    /\ IF 0 < MinResources(num_resources)
       THEN /\ \E page \in ScrapeOutcomes :
                 examples' = IF page.kind = "raise" THEN <<>>
                             ELSE ScrapeLoop(<<>>,
                                             Take(page.anchors, MinResources(num_resources) + 2),
                                             MinResources(num_resources), clean_topic)
            /\ Called("scrape", 1)
       ELSE UNCHANGED <<examples, calls>>
    /\ pc' = "except_fallback"
    /\ UNCHANGED <<route, apiKey, body, status, detail, data, extracted, gen, plan, result>>

\* generate_plan_and_resources, lines 536-601
ExceptFallback ==
    /\ pc = "except_fallback"
    /\ IF Len(examples) < MinResources(num_resources)
       THEN \E reply \in FallbackReplies :
              LET b == FallbackBatch(examples, reply, MinResources(num_resources), clean_topic) IN
              /\ examples' = Take(b.examples, num_resources)
              /\ calls' = IF b.gathered
                          THEN AfterGather([calls EXCEPT !["fallback"] = @ + 1], b.validated)
                          ELSE [calls EXCEPT !["fallback"] = @ + 1]
       ELSE /\ examples' = Take(examples, num_resources)
            /\ UNCHANGED calls
    /\ pc' = "respond"
    /\ UNCHANGED <<route, apiKey, body, status, detail, data, extracted, gen, plan, result>>

\* LearningPlanResponse: plan and examples are List[Dict[str, str]]
IsStrDict(d) == \A k \in DOMAIN d : d[k].t = "str"
ValidResponse(p, exs) ==
    /\ p.t = "list"
    /\ \A i \in 1..Len(p.v) : IsStrDict(p.v[i])
    /\ \A i \in 1..Len(exs) : IsStrDict(exs[i])

\* create_learning_experience, lines 754-760 (both backends)
LearnRespond ==
    /\ pc = "respond"
    /\ IF ValidResponse(plan, examples)
       THEN Respond(200, NoText)
       ELSE Respond(500, <<"Error creating learning experience: ">>)
    /\ UNCHANGED <<route, apiKey, body, data, extracted, gen, plan, examples, result, calls>>

(* ------------------------- backend_simplified.py ----------------------- *)
\* the number of characters of a text
AtomChars(c) == CASE c = "python" -> 6
                  [] c = "steps" -> 5
                  [] c = "resources" -> 9
                  [] c = "learn" -> 5
                  [] OTHER -> 1
RECURSIVE CharLen(_)
CharLen(s) == IF s = <<>> THEN 0 ELSE AtomChars(Head(s)) + CharLen(Tail(s))

\* str.replace(' ', '').isalnum()
IsAlnumNoBlanks(s) ==
    /\ \E i \in 1..Len(s) : s[i] # Blank
    /\ \A i \in 1..Len(s) : s[i] \notin {".", ",", ";", ":", "+", "!", "#"}

\* re.sub(r'^(learn|learning|how to|teach me|i want to learn)\s+', '', s, IGNORECASE)
DropLearnPrefix(s) ==
    IF Len(s) >= 2 /\ Lower(s)[1] \in {"learn", "learning", "how to", "teach me", "i want to learn"}
          /\ s[2] = Blank
    THEN LStrip(Tail(s))
    ELSE s

\* re.search(r'(\d+)\s*steps?', s): the number matched, -1 when none matches
RECURSIVE SkipBlanks(_, _)
SkipBlanks(s, i) == IF i <= Len(s) /\ s[i] = Blank THEN SkipBlanks(s, i + 1) ELSE i
RECURSIVE SkipDigits(_, _)
SkipDigits(s, i) == IF i <= Len(s) /\ IsDigit(s[i]) THEN SkipDigits(s, i + 1) ELSE i
StepsMatchAt(s, i) ==
    /\ IsDigit(s[i])
    /\ LET k == SkipBlanks(s, SkipDigits(s, i)) IN k <= Len(s) /\ s[k] \in {"step", "steps"}
RECURSIVE StepsSearch(_, _)
StepsSearch(s, i) ==
    IF i > Len(s) THEN -1
    ELSE IF StepsMatchAt(s, i) THEN DigitRun(s, i, 0)
    ELSE StepsSearch(s, i + 1)

ExtractSimplified(topic, reply) ==
    LET failed ==
          LET ct == Strip(DropLearnPrefix(FallbackTopic(topic)))
              bad == CharLen(ct) < 2 \/ ~IsAlnumNoBlanks(ct)
          IN [clean_topic |-> ct, message |-> IF bad THEN UnableMsg ELSE NoText,
              num_steps |-> Null, is_valid |-> Bool(~bad),
              validation_message |-> IF bad THEN UnableMsg ELSE NoText]
    IN
    IF ParseLenient(reply.kind) = "error" \/ reply.kind = "nonobject" THEN failed
    ELSE
    LET d == reply.data
        ct == Get(d, "clean_topic", Str(<<>>))
        ns == Get(d, "num_steps", Null)
        vm == Get(d, "validation_message", Str(<<>>))
        asked == StepsSearch(Lower(topic), 1)
    IN
    IF ct.t # "str" \/ vm.t # "str" THEN failed
    ELSE [clean_topic |-> Strip(ct.v), message |-> Strip(vm.v),
          num_steps |-> IF ns # Null THEN ns ELSE IF asked >= 0 THEN Num(asked) ELSE Null,
          is_valid |-> Get(d, "is_valid", Bool(FALSE)),
          validation_message |-> Strip(vm.v)]

SimplifiedObjects ==
    { MkObj([clean_topic |-> t, num_steps |-> ns, is_valid |-> iv, validation_message |-> vm]) :
        t \in {Absent, Str(<<"python">>), Null},
        ns \in {Absent, Null, Num(3)},
        iv \in {Absent, Bool(TRUE), Bool(FALSE)},
        vm \in {Absent, Str(<<"not", Blank, "learnable">>)} }

SimplifiedReplies ==
    {[kind |-> k] : k \in {"raise", "garbage", "nonobject"}}
      \cup {[kind |-> k, data |-> d] : k \in {"object", "embedded"}, d \in SimplifiedObjects}

\* backend_simplified.py create_learning_experience, lines 225-228
SimplifiedExtract ==
    /\ pc = "handler" /\ KeyConfigured
    /\ route = [app |-> "simplified", path |-> "learn"]
    /\ \E reply \in SimplifiedReplies :
         LET r == ExtractSimplified(Strip(body.topic), reply) IN
         /\ data' = reply
         /\ clean_topic' = r.clean_topic
         /\ resource_message' = r.message
         /\ num_steps' = r.num_steps
         /\ is_valid' = r.is_valid
         /\ validation_message' = r.validation_message
    /\ Called("extract", 1)
    /\ pc' = "gate"
    /\ UNCHANGED <<route, apiKey, body, status, detail, num_resources, gen, plan, examples,
                   result>>

\* the hardcoded plan of backend_simplified.py
DefaultPlanSimplified(topic) ==
    List(<< [title |-> Str(<<"Step 1: Research ">> \o topic),
             description |-> Str(<<"Start by researching the basics of ">> \o topic \o <<" online.">>)],
            [title |-> Str(<<"Step 2: Practice">>),
             description |-> Str(<<"Try applying what you've learned about ">> \o topic
                                   \o <<" through hands-on practice.">>)],
            [title |-> Str(<<"Step 3: Build Projects">>),
             description |-> Str(<<"Create projects to solidify your understanding of ">>
                                   \o topic \o <<".">>)] >>)

PlanReplies ==
    {[kind |-> k] : k \in {"raise", "garbage", "nonobject"}}
      \cup {[kind |-> k, plan |-> pl] : k \in {"object", "embedded"}, pl \in PlanValues}

\* generate_learning_plan
GenerateLearningPlan(topic, reply) ==
    IF ParseLenient(reply.kind) = "error" \/ reply.kind = "nonobject"
    THEN DefaultPlanSimplified(topic)
    ELSE IF TruthyValue(ReplyPlan(reply)) THEN ReplyPlan(reply)
    ELSE DefaultPlanSimplified(topic)

\* backend_simplified.py create_learning_experience, line 238
SimplifiedPlan ==
    /\ pc = "generate" /\ route.app = "simplified"
    /\ \E reply \in PlanReplies :
         /\ gen' = [kind |-> reply.kind,
                    plan |-> IF reply.kind \in {"object", "embedded"} THEN reply.plan ELSE Absent]
         /\ plan' = GenerateLearningPlan(clean_topic, reply)
    /\ Called("plan", 1)
    /\ pc' = "respond"
    /\ UNCHANGED <<route, apiKey, body, status, detail, data, extracted, examples, result>>

(* ------------------- POST /api/expand-step (backend.py) ---------------- *)
ExpandFields == {"additionalContext", "practicalDetails", "importantConsiderations",
                 "realWorldExamples", "potentialChallenges"}

\* the hardcoded answer of the except branch
ExpandFallback ==
    [additionalContext |-> Str(<<"While working on this step, keep in mind ...">>),
     practicalDetails |-> List(<<Str(<<"Break down complex tasks">>)>>),
     importantConsiderations |-> List(<<Str(<<"Make sure you have the prerequisites">>)>>),
     realWorldExamples |-> List(<<Str(<<"Building projects helps">>)>>),
     potentialChallenges |-> List(<<Str(<<"Information overload">>)>>)]

\* an item of potentialChallenges as a string
FixChallenge(item) ==
    IF item.t = "str" THEN item
    ELSE IF item.t = "obj"
    THEN Str(Get(item.v, "challenge", Str(<<"Challenge">>)).v \o <<": ">>
               \o Get(item.v, "solution", Str(<<"Solution">>)).v)
    ELSE Str(<<"str(item)">>)

\* expand_learning_step, given the reply of the AI call
ExpandLearningStep(reply) ==
    IF ParseStrict(reply.kind) = "error" THEN [t |-> "obj", v |-> ExpandFallback]
    ELSE IF reply.kind = "nonobject" THEN List(<<>>)
    ELSE LET d == reply.data
             pc0 == Get(d, "potentialChallenges", Null)
         IN IF TruthyValue(pc0) /\ pc0.t # "list" THEN [t |-> "obj", v |-> ExpandFallback]
            ELSE [t |-> "obj",
                  v |-> [k \in DOMAIN d |->
                           IF k = "potentialChallenges" /\ TruthyValue(d[k])
                           THEN List([j \in 1..Len(d[k].v) |-> FixChallenge(d[k].v[j])])
                           ELSE d[k]]]

ExpandObjects ==
    { MkObj([additionalContext |-> a, practicalDetails |-> b, importantConsiderations |-> b,
             realWorldExamples |-> c, potentialChallenges |-> e]) :
        a \in {Absent, Str(<<"context">>)},
        b \in {Absent, List(<<Str(<<"detail">>)>>)},
        c \in {Absent, List(<<>>)},
        e \in {Absent, List(<<Str(<<"hard: retry">>)>>),
               List(<<[t |-> "obj", v |-> [challenge |-> Str(<<"hard">>)]]>>), Num(3)} }

ExpandReplies ==
    {[kind |-> k] : k \in ReplyKinds \ {"object"}}
      \cup {[kind |-> "object", data |-> d] : d \in ExpandObjects}

\* backend.py expand_step
ExpandStep ==
    /\ pc = "handler" /\ KeyConfigured
    /\ route = [app |-> "backend", path |-> "expand-step"]
    /\ \E reply \in ExpandReplies : result' = ExpandLearningStep(reply)
    /\ Called("expand", 1)
    /\ Respond(200, NoText)
    /\ UNCHANGED <<route, apiKey, body, data, extracted, gen, plan, examples>>

(* ------------------------ POST /api/chat (index.py) -------------------- *)
Chat ==
    /\ pc = "handler" /\ KeyConfigured
    /\ route = [app |-> "index", path |-> "chat"]
    /\ \E reply \in {AiRaises, <<"hello">>} :
         IF reply = AiRaises
         THEN Respond(500, <<"Error calling OpenAI API: ">>) /\ UNCHANGED result
         ELSE Respond(200, NoText) /\ result' = [reply |-> reply]
    /\ Called("chat", 1)
    /\ UNCHANGED <<route, apiKey, body, data, extracted, gen, plan, examples>>

(* ------------------- POST /api/generate-image (index.py) --------------- *)
\* the number of characters of a prompt
PromptAtomChars(c) == CASE c = "ab" -> 2
                        [] c = "cat" -> 3
                        [] c = "test" -> 4
                        [] c = "sunset" -> 6
                        [] c = "over" -> 4
                        [] c = "hills" -> 5
                        [] c = "x997" -> 997
                        [] c = "x998" -> 998
                        [] OTHER -> 1
RECURSIVE PromptLen(_)
PromptLen(s) == IF s = <<>> THEN 0 ELSE PromptAtomChars(Head(s)) + PromptLen(Tail(s))

\* len(prompt.split())
RECURSIVE SkipWord(_)
SkipWord(s) == IF s # <<>> /\ Head(s) # Blank THEN SkipWord(Tail(s)) ELSE s
RECURSIVE WordCount(_)
WordCount(s) ==
    IF s = <<>> THEN 0
    ELSE IF Head(s) = Blank THEN WordCount(Tail(s))
    ELSE 1 + WordCount(SkipWord(Tail(s)))

\* any(word in prompt.lower() for word in ['test', 'dummy', 'placeholder', 'example', 'sample'])
HasPlaceholderWord(s) ==
    \E i \in 1..Len(s) : LowerAtom(s[i]) \in {"test", "dummy", "placeholder", "example", "sample"}

TooShortMsg == <<"Prompt is too short. Please provide more details.">>
TooLongMsg == <<"Prompt is too long. Please keep it under 1000 characters.">>
UnclearPromptMsg == <<"This prompt doesn't clearly describe a visual scene. Please provide more details about what background you want to see.">>
PlaceholderMsg == <<"Please provide a clear description of the background you want to see, not a test or placeholder text.">>
PolicyMsg == <<"This prompt may violate content policies. Please try a different, more appropriate description.">>
InvalidPromptMsg == <<"The prompt doesn't make sense or is invalid. Please provide a clearer description of the background you want.">>

\* result.replace("INVALID", "")
RECURSIVE RemoveAtom(_, _)
RemoveAtom(s, atom) ==
    IF s = <<>> THEN <<>>
    ELSE (IF Head(s) = atom THEN <<>> ELSE <<Head(s)>>) \o RemoveAtom(Tail(s), atom)

\* validate_prompt_makes_sense: [ok, message]
ValidatePromptMakesSense(prompt, reply) ==
    IF reply = AiRaises THEN [ok |-> TRUE, message |-> NoText]
    ELSE LET r == Upper(Strip(reply)) IN
         IF StartsWith(r, <<"VALID">>) THEN [ok |-> TRUE, message |-> NoText]
         ELSE IF StartsWith(r, <<"INVALID">>)
         THEN LET e0 == Strip(RemoveAtom(r, "INVALID"))
                  e == IF StartsWith(e0, <<":">>) THEN Strip(Tail(e0)) ELSE e0
              IN [ok |-> FALSE, message |-> IF e # <<>> THEN e ELSE UnclearPromptMsg]
         ELSE IF WordCount(prompt) < 3 \/ HasPlaceholderWord(prompt)
         THEN [ok |-> FALSE, message |-> PlaceholderMsg]
         ELSE [ok |-> TRUE, message |-> NoText]

\* mutant: the invalid-prompt test comes first
ImageError_InvalidFirst(err) ==
    LET has(words) == \E i \in 1..Len(err) : LowerAtom(err[i]) \in words IN
    IF has({"invalid", "malformed"}) THEN [code |-> 400, text |-> InvalidPromptMsg]
    ELSE IF has({"content_policy", "safety", "policy"}) THEN [code |-> 400, text |-> PolicyMsg]
    ELSE [code |-> 500, text |-> <<"Error generating image: ">> \o err]

\* the status an exception of the generation or the download is answered with
ImageError(err) ==
    LET has(words) == \E i \in 1..Len(err) : LowerAtom(err[i]) \in words IN
    IF has({"content_policy", "safety", "policy"}) THEN [code |-> 400, text |-> PolicyMsg]
    ELSE IF has({"invalid", "malformed"}) THEN [code |-> 400, text |-> InvalidPromptMsg]
    ELSE [code |-> 500, text |-> <<"Error generating image: ">> \o err]

PromptVerdicts == { AiRaises, <<"valid">>, <<"INVALID">>,
                    <<"invalid", ":", Blank, "too vague">>, <<"unsure">> }
Ok == <<"#ok">>
ImageErrors == { <<"content_policy", Blank, "invalid">>, <<"malformed">>, <<"timeout">>,
                 <<"Safety", Blank, "system">> }

\* mutant: a prompt of exactly 1000 characters is too long
LengthVerdict_Exclusive(prompt) ==
    IF PromptLen(prompt) < 3 THEN TooShortMsg
    ELSE IF PromptLen(prompt) >= 1000 THEN TooLongMsg
    ELSE NoText

\* the two length checks of generate_image: the detail of the 400 they
\* raise, NoText when the prompt passes
LengthVerdict(prompt) ==
    IF PromptLen(prompt) < 3 THEN TooShortMsg
    ELSE IF PromptLen(prompt) > 1000 THEN TooLongMsg
    ELSE NoText

\* index.py generate_image; data keeps the text of the exception the
\* generation or the download raised, NoText when none did
GenerateImage ==
    /\ pc = "handler" /\ KeyConfigured
    /\ route = [app |-> "index", path |-> "generate-image"]
    /\ LET prompt == Strip(body.prompt) IN
       IF LengthVerdict(prompt) # NoText
       THEN Respond(400, LengthVerdict(prompt)) /\ UNCHANGED <<result, calls, data>>
       ELSE \E verdict \in PromptVerdicts, made \in ImageErrors \cup {Ok},
               fetched \in ImageErrors \cup {Ok} :
              LET v == ValidatePromptMakesSense(prompt, verdict) IN
              IF ~v.ok
              THEN /\ Respond(400, IF v.message # <<>> THEN v.message ELSE UnclearPromptMsg)
                   /\ Called("image_check", 1)
                   /\ UNCHANGED <<result, data>>
              ELSE IF made # Ok
              THEN /\ Respond(ImageError(made).code, ImageError(made).text)
                   /\ data' = [kind |-> "image", error |-> made]
                   /\ calls' = [calls EXCEPT !["image_check"] = @ + 1,
                                             !["image_generate"] = @ + 1]
                   /\ UNCHANGED result
              ELSE IF fetched # Ok
              THEN /\ Respond(ImageError(fetched).code, ImageError(fetched).text)
                   /\ data' = [kind |-> "image", error |-> fetched]
                   /\ calls' = [calls EXCEPT !["image_check"] = @ + 1,
                                             !["image_generate"] = @ + 1,
                                             !["image_download"] = @ + 1]
                   /\ UNCHANGED result
              ELSE /\ Respond(200, NoText)
                   /\ calls' = [calls EXCEPT !["image_check"] = @ + 1,
                                             !["image_generate"] = @ + 1,
                                             !["image_download"] = @ + 1]
                   /\ result' = [image_url |-> <<"data:image/png;base64,">>]
                   /\ data' = [kind |-> "image", error |-> NoText]
    /\ UNCHANGED <<route, apiKey, body, extracted, gen, plan, examples>>

Next ==
    \/ Receive
    \/ Finish
    \/ KeyMissing
    \/ LearnExtract
    \/ LearnGate
    \/ GenerateMain
    \/ GenerateFallback
    \/ ExceptScrape
    \/ ExceptFallback
    \/ LearnRespond
    \/ SimplifiedExtract
    \/ SimplifiedPlan
    \/ ExpandStep
    \/ Chat
    \/ GenerateImage

Spec == Init /\ [][Next]_vars

(* ------------------- validate_url on its own (backend.py) -------------- *)
\* validate_url is called with a resource while the web and the AI answer
\* in any of the ways of WebAnswers
UrlYt == <<"http", "s://www.", "youtube.com", "/watch?v=1">>
ResYt == [title |-> Str(<<"Video">>), url |-> Str(UrlYt)]
UrlResources == {ResA, ResYt, ResFtp, ResNoUrl}
WebAnswers ==
    [fetch : {"response", "timeout", "status_error", "crash"},
     status : {200, 404},
     html : BOOLEAN,
     length : {300, 19999, 20000, 50000},
     yt : {<<"AVAILABLE">>, <<"unavailable">>, AiRaises},
     verdict : {<<"VALID">>, <<"invalid">>, AiRaises}]

UrlCall ==
    /\ pc = "idle"
    /\ route' = [app |-> "backend", path |-> "validate_url"]
    /\ \E r \in UrlResources, w \in WebAnswers : body' = [resource |-> r, web |-> w]
    /\ clean_topic' = <<"python">>
    /\ pc' = "validate"
    /\ UNCHANGED <<apiKey, status, detail, data, num_resources, resource_message, num_steps,
                   is_valid, validation_message, gen, plan, examples, result, calls>>

UrlReturn ==
    /\ pc = "validate"
    /\ result' = [value |-> ValidateUrlAt(body.resource, clean_topic, body.web)]
    /\ calls' = [calls EXCEPT !["fetch"] = @ + (IF Fetches(body.resource) THEN 1 ELSE 0),
                              !["page_check"] = @ + UrlAiCallsAt(body.resource, body.web)]
    /\ pc' = "done"
    /\ UNCHANGED <<route, apiKey, body, status, detail, data, extracted, gen, plan, examples>>

UrlNext ==
    \/ UrlCall
    \/ UrlReturn
    \/ Finish

UrlSpec == Init /\ [][UrlNext]_vars

(* ---------------- clean_json_response on its own (backend.py) ---------- *)
\* A reply text is a sequence of the atoms "<fence>" (the three backquotes
\* of a markdown code fence), "json", blank
\* and "{}" (anything else).
Fence == "<fence>"
ReplyAtoms == {Fence, "json", Blank, "{}"}
ReplyTexts == BoundedSeq(ReplyAtoms, MaxText)

\* mutant: the trailing fence stays
CleanJsonResponse_NoTrailing(text) ==
    LET r0 == Strip(text)
        r1 == IF StartsWith(r0, <<Fence, "json">>) THEN SubSeq(r0, 3, Len(r0)) ELSE r0
        r2 == IF StartsWith(r1, <<Fence>>) THEN Tail(r1) ELSE r1
    IN Strip(r2)

\* clean_json_response
CleanJsonResponse(text) ==
    LET r0 == Strip(text)
        r1 == IF StartsWith(r0, <<Fence, "json">>) THEN SubSeq(r0, 3, Len(r0)) ELSE r0
        r2 == IF StartsWith(r1, <<Fence>>) THEN Tail(r1) ELSE r1
        r3 == IF r2 # <<>> /\ r2[Len(r2)] = Fence THEN SubSeq(r2, 1, Len(r2) - 1) ELSE r2
    IN Strip(r3)

\* the AI answers a text
CleanCall ==
    /\ pc = "idle"
    /\ route' = [app |-> "backend", path |-> "clean_json_response"]
    /\ \E t \in ReplyTexts : body' = [text |-> t]
    /\ pc' = "call_ai"
    /\ UNCHANGED <<apiKey, status, detail, data, extracted, gen, plan, examples, result, calls>>

\* call_ai returns the cleaned text
CallAi ==
    /\ pc = "call_ai"
    /\ result' = [text |-> CleanJsonResponse(body.text)]
    /\ pc' = "parse"
    /\ UNCHANGED <<route, apiKey, body, status, detail, data, extracted, gen, plan,
                   examples, calls>>

\* parse_json_response cleans what call_ai returned once more
ParseJsonResponse ==
    /\ pc = "parse"
    /\ result' = [first |-> result.text, text |-> CleanJsonResponse(result.text)]
    /\ pc' = "done"
    /\ UNCHANGED <<route, apiKey, body, status, detail, data, extracted, gen, plan,
                   examples, calls>>

CleanNext ==
    \/ CleanCall
    \/ CallAi
    \/ ParseJsonResponse
    \/ Finish

CleanSpec == Init /\ [][CleanNext]_vars

(* ------------------------------- claims -------------------------------- *)
\* the plan-generating call of the request failed: it raised, its reply did
\* not parse, or the parsed reply has no plan or an empty one (null included)
PlanCallFailed ==
    \/ gen.kind = "raise"
    \/ route.app = "backend" /\ ParseStrict(gen.kind) = "error"
    \/ route.app = "simplified" /\ ParseLenient(gen.kind) = "error"
    \/ gen.kind = "nonobject"
    \/ gen.plan \in {Absent, Null, List(<<>>)}

HardcodedPlan ==
    IF route.app = "backend" THEN DefaultPlan(clean_topic)
    ELSE DefaultPlanSimplified(clean_topic)

\* C1: in both backends, once the plan-generating call has been made, a
\* failed call (raised, unparseable, plan missing or empty) leaves the
\* hardcoded three-step plan built from the topic, and the plan is never empty.
C1_PlanFallsBackToDefault ==
    (route.path = "learn" /\ gen # NoData) =>
        /\ PlanCallFailed => (plan = HardcodedPlan /\ Len(plan.v) = 3)
        /\ TruthyValue(plan)

\* C1 witness: a 200 answer of backend.py whose reply carried an empty plan
C1_Witness ==
    /\ pc = "done" /\ status = 200 /\ route.app = "backend"
    /\ gen.kind = "object" /\ gen.plan = List(<<>>)
    /\ plan = DefaultPlan(<<"python">>)

\* the requests the claims about POST /api/learn speak of
LearnDone == pc = "done" /\ route.path = "learn"
BackendLearnDone == LearnDone /\ route.app = "backend"

\* C2: in both backends, once the extraction has yielded is_valid false the
\* request makes no generation call of any kind and is answered 400 with the
\* validation message, or with the default text when that message is empty.
C2_ValidationGatesGeneration ==
    (route.path = "learn" /\ calls["extract"] > 0 /\ ~TruthyValue(is_valid)) =>
        /\ pc \in {"gate", "done"}
        /\ \A k \in {"generate", "plan", "fallback", "gather", "fetch", "scrape", "page_check"} :
             calls[k] = 0
        /\ pc = "done" =>
             /\ status = 400
             /\ detail = (IF validation_message # <<>> THEN validation_message
                          ELSE InvalidTopicMsg)

\* C2 witness: backend.py rejected a topic whose validation message was empty
C2_Witness ==
    /\ BackendLearnDone /\ status = 400 /\ calls["extract"] = 1
    /\ ~TruthyValue(is_valid) /\ validation_message = <<>> /\ detail = InvalidTopicMsg

\* the extraction call of backend.py raised, or its reply could not be parsed
\* or processed
ExtractionFailed ==
    \/ data.kind \in {"raise", "garbage", "embedded", "nonobject"}
    \/ /\ data.kind = "object"
       /\ LET d == data.data
              nr == Get(d, "num_resources", Null)
              ns == Get(d, "num_steps", Null)
          IN \/ Truthy(nr) /\ ~IntOf(nr).ok
             \/ Truthy(nr) /\ Get(d, "resource_message", Str(<<>>)).t # "str"
             \/ Truthy(ns) /\ ~IntOf(ns).ok
             \/ Get(d, "validation_message", Str(<<>>)).t # "str"

\* C3: when the extraction call of backend.py raises or its reply cannot be
\* parsed or processed, the topic is invalid with the "Unable to validate"
\* message, the request gets no further than the gate and is answered 400.
C3_ValidationFailsClosed ==
    (route = [app |-> "backend", path |-> "learn"] /\ data # NoData /\ ExtractionFailed) =>
        /\ is_valid = Bool(FALSE)
        /\ validation_message = UnableMsg
        /\ pc \in {"gate", "done"}
        /\ pc = "done" => (status = 400 /\ detail = UnableMsg)

\* C3 witness: a reply that says is_valid true but cannot be processed
C3_Witness ==
    /\ BackendLearnDone /\ status = 400 /\ detail = UnableMsg
    /\ data.kind = "object"
    /\ Get(data.data, "is_valid", Null) = Bool(TRUE)

\* C4: without the API key every POST handler answers 500 "OPENAI_API_KEY not
\* configured" and has made no outbound call and produced nothing.
C4_NoKeyNoWork ==
    (pc # "idle" /\ ~apiKey) =>
        /\ pc \in {"handler", "done"}
        /\ calls = NoCalls
        /\ data = NoData /\ gen = NoData /\ result = NoData
        /\ pc = "done" => (status = 500 /\ detail = KeyMissingMsg)

\* C4 witness: a too-short image prompt is answered 500 without the key
C4_Witness ==
    /\ pc = "done" /\ ~apiKey /\ route.path = "generate-image"
    /\ PromptLen(Strip(body.prompt)) < 3
    /\ status = 500

\* C5 (as claimed): with the key configured, an empty or whitespace-only
\* topic posted to /api/learn of backend.py is answered 400.
C5_BlankTopicRejected ==
    (BackendLearnDone /\ apiKey /\ Strip(body.topic) = <<>>) => status = 400

\* C6 (as claimed): a 200 answer to a topic that asks for N resources, the
\* extraction having reported that N, carries exactly N examples.
C6_ExactResourceCount ==
    (BackendLearnDone /\ status = 200 /\ body.askRes > 0 /\ num_resources = body.askRes) =>
        Len(examples) = body.askRes

\* C7 (as claimed): a 200 answer to a topic that asks for N steps, the
\* extraction having reported that N, carries a plan of exactly N steps.
C7_ExactStepCount ==
    (LearnDone /\ status = 200 /\ body.askSteps > 0 /\ num_steps = Num(body.askSteps)) =>
        Len(plan.v) = body.askSteps

\* C8 (as claimed): a 200 answer of backend.py to a request for N >= 1
\* resources carries at least min(3, N) examples, so at least one.
C8_MinimumExamples ==
    (BackendLearnDone /\ status = 200 /\ num_resources >= 1) =>
        /\ Len(examples) >= (IF num_resources < 3 THEN num_resources ELSE 3)
        /\ examples # <<>>

\* C9 (as claimed): every step of the plan of a 200 answer of /api/learn has
\* a title and a description.
C9_StepsHaveTitleAndDescription ==
    (LearnDone /\ status = 200) =>
        \A i \in 1..Len(plan.v) : {"title", "description"} \subseteq DOMAIN plan.v[i]

\* C10: every example generate_plan_and_resources of backend.py holds or
\* returns has exactly the keys title, url and description, and a string url
\* that starts with "http".
C10_ExamplesWellFormed ==
    route.app = "backend" =>
        \A i \in 1..Len(examples) :
            /\ DOMAIN examples[i] = {"title", "url", "description"}
            /\ examples[i].url.t = "str"
            /\ StartsWith(examples[i].url.v, <<"http">>)

\* C10 witness: the unvalidated fill added the resource whose URL answers 404
\* and that has no title of its own, next to a validated one
C10_Witness ==
    /\ pc = "respond" /\ route.app = "backend" /\ gen.kind = "object"
    /\ \E i, j \in 1..Len(examples) :
         /\ examples[i].url = Str(UrlB)
         /\ examples[i].title = Str(clean_topic \o <<" Resource">>)
         /\ examples[j].url = Str(UrlA)

\* a finished request to POST /api/generate-image with the key configured
ImageDone == pc = "done" /\ route.path = "generate-image" /\ apiKey

\* C11: with the key configured, a prompt whose stripped length is below 3
\* or above 1000 is answered 400 ("too short" / "too long") without any AI
\* validation call, image generation or download; a stripped length of 3 to
\* 1000 passes the check, that is, the AI validation call is made.
C11_PromptLengthBounds ==
    ImageDone =>
        LET n == PromptLen(Strip(body.prompt)) IN
        /\ n < 3 => (status = 400 /\ detail = TooShortMsg /\ calls = NoCalls)
        /\ n > 1000 => (status = 400 /\ detail = TooLongMsg /\ calls = NoCalls)
        /\ (3 <= n /\ n <= 1000) =>
             (calls["image_check"] = 1 /\ detail \notin {TooShortMsg, TooLongMsg})

\* C11 witness: a prompt of 1001 characters was rejected, no call made
C11_Witness ==
    /\ ImageDone /\ PromptLen(Strip(body.prompt)) = 1001
    /\ status = 400 /\ detail = TooLongMsg /\ calls = NoCalls

\* C12 (as claimed): a prompt that is a single placeholder word is never
\* answered 200 by POST /api/generate-image.
C12_PlaceholderPromptRejected ==
    (ImageDone /\ WordCount(body.prompt) = 1 /\ HasPlaceholderWord(body.prompt)) =>
        status # 200

\* C13 (as claimed): every 200 response of POST /api/expand-step that is a
\* JSON object has all five fields additionalContext, practicalDetails,
\* importantConsiderations, realWorldExamples and potentialChallenges.
C13_ExpandHasAllFields ==
    (pc = "done" /\ route.path = "expand-step" /\ status = 200 /\ result.t = "obj") =>
        /\ {"additionalContext", "practicalDetails", "importantConsiderations",
            "realWorldExamples", "potentialChallenges"} \subseteq DOMAIN result.v

\* C14 (as claimed): a request that asks for more than 15 resources never
\* reaches the generation call with that number of resources.
C14_UnreasonableCountAdjusted ==
    (route = [app |-> "backend", path |-> "learn"] /\ body.askRes > 15
       /\ calls["generate"] > 0) =>
        num_resources # body.askRes

\* the validation message of the reply of the extraction call, trimmed and
\* lower-cased
ReplyMessage ==
    LET vm == Get(data.data, "validation_message", Str(<<>>)) IN
    IF vm.t = "str" THEN Lower(Strip(vm.v)) ELSE <<"#notastring">>

C16_NoBrokenUrlReturned ==
    (route.app = "backend" /\ pc \in {"respond", "done"} /\ calls["scrape"] = 0) =>
        \A i \in 1..Len(examples) :
            LET w == WebAnswer(examples[i].url.v) IN
            ~(w.fetch = "response" /\ w.status >= 400)

\* C18 (as claimed): the resources of the reply past the first num_examples
\* are validated and used, so the fallback stage is entered only when the
\* valid resources of the whole reply fall short of the minimum.
C18_SurplusResourcesUsed ==
    (route.app = "backend" /\ pc = "fallback") =>
        Len(examples) + gen.spare < MinResources(num_resources)

\* C19 (as claimed): no example the fallback stage adds has the URL of an
\* example that stands before it in the list.
C19_FallbackAddsNoDuplicate ==
    [][(pc \in {"fallback", "except_fallback"} /\ pc' = "respond") =>
          \A i \in (Len(examples) + 1)..Len(examples') :
              \A j \in 1..(i - 1) : examples'[j].url # examples'[i].url]_vars

\* C20 (as claimed): generate_plan_and_resources never returns more examples
\* than num_examples.
C20_AtMostNumExamples ==
    (route.app = "backend" /\ pc \in {"respond", "done"}) =>
        Len(examples) <= num_resources

\* validate_url has returned for a YouTube URL whose page came back as HTML
\* with a status below 400
YoutubePageChecked ==
    /\ pc = "done" /\ route.path = "validate_url"
    /\ Fetches(body.resource) /\ IsYoutube(body.resource["url"].v)
    /\ body.web.fetch = "response" /\ body.web.status < 400 /\ body.web.html

\* C17 (as claimed): a YouTube page of at least 20000 characters is not
\* rejected on size: the AI is asked whether the video is available, and the
\* resource is accepted unless the AI answers UNAVAILABLE or the content check
\* answers INVALID.
C17_LargeYoutubePageNotRejectedOnSize ==
    (YoutubePageChecked /\ body.web.length >= 20000) =>
        /\ calls["page_check"] >= 1
        /\ (/\ ~StartsWith(Strip(Upper(body.web.yt)), <<"UNAVAILABLE">>)
            /\ ~StartsWith(Strip(Upper(body.web.verdict)), <<"INVALID">>)) =>
             IsDict(result.value)

\* validate_url has returned
UrlDone == pc = "done" /\ route.path = "validate_url"

\* C21: validate_url accepts a resource with an http URL, returning its
\* title, url and description, on a timeout or other request error of the
\* fetch and when the AI content check raises after a response below 400; it
\* returns None, without a fetch, when the URL is missing or does not start
\* with "http", and, after the fetch, when the status is >= 400, when the AI
\* verdict starts with INVALID, and on any other exception.
C21_LenientUnverifiedStrictBad ==
    UrlDone =>
        LET r == body.resource
            w == body.web
            v == result.value
            checked == /\ w.fetch = "response" /\ w.status < 400 /\ w.html
                       /\ calls["page_check"] >= 1
        IN
        /\ ~Fetches(r) => (v = NoneVal /\ calls["fetch"] = 0)
        /\ Fetches(r) =>
             /\ w.fetch = "timeout" =>
                  /\ IsDict(v) /\ DOMAIN v = {"title", "url", "description"}
                  /\ v.url = r["url"]
             /\ (checked /\ w.verdict = AiRaises) =>
                  /\ IsDict(v) /\ DOMAIN v = {"title", "url", "description"}
                  /\ v.url = r["url"]
             /\ (w.fetch \in {"response", "status_error"} /\ w.status >= 400) => v = NoneVal
             /\ (checked /\ w.verdict # AiRaises
                   /\ StartsWith(Strip(Upper(w.verdict)), <<"INVALID">>)) => v = NoneVal
             /\ w.fetch = "crash" => v = NoneVal

\* C21 witness: the content check of a page that answered 200 raised, and the
\* resource was accepted
C21_Witness ==
    /\ UrlDone /\ body.resource = ResA
    /\ body.web.fetch = "response" /\ body.web.status = 200 /\ body.web.html
    /\ body.web.verdict = AiRaises /\ calls["page_check"] = 1
    /\ IsDict(result.value) /\ result.value.url = Str(UrlA)

\* C22 (as claimed): one POST /api/learn request runs asyncio.gather at most
\* once.
C22_SingleGather ==
    route.path = "learn" => calls["gather"] <= 1

\* C22 (amended): one POST /api/learn request of backend.py runs
\* asyncio.gather at most twice, once after the combined AI call and once
\* after a fallback AI call, never more often than it made such calls; the
\* first gather is over at most num_examples validate_url calls, each of at
\* most one fetch; backend_simplified.py runs none.
C22_GatherAtMostTwice ==
    route.path = "learn" =>
        /\ calls["gather"] <= 2
        /\ calls["gather"] <= calls["generate"] + calls["fallback"]
        /\ calls["fallback"] = 0 => calls["fetch"] <= num_resources
        /\ route.app = "simplified" => calls["gather"] = 0

\* C22 witness: a request answered 200 after two gathers, of three fetches
\* in all
C22_Witness ==
    /\ BackendLearnDone /\ status = 200
    /\ calls["gather"] = 2 /\ calls["fetch"] = 3

\* the words of the error text of the failed image request, lower-cased
ErrorHas(words) == \E i \in 1..Len(data.error) : LowerAtom(data.error[i]) \in words

\* C23: when the image generation or the download raises, the answer is 400
\* with the content-policy message if the lower-cased error text holds
\* 'content_policy', 'safety' or 'policy', else 400 with the invalid-prompt
\* message if it holds 'invalid' or 'malformed', else 500 "Error generating
\* image: ..."; a 200 is given only after the validation call, the generation
\* and the download were all made and none raised.
C23_ImageErrorClassification ==
    ImageDone =>
        /\ (data # NoData /\ data.error # NoText) =>
             /\ calls["image_check"] = 1 /\ calls["image_generate"] = 1
             /\ IF ErrorHas({"content_policy", "safety", "policy"})
                THEN status = 400 /\ detail = PolicyMsg
                ELSE IF ErrorHas({"invalid", "malformed"})
                THEN status = 400 /\ detail = InvalidPromptMsg
                ELSE status = 500 /\ detail = <<"Error generating image: ">> \o data.error
        /\ status = 200 =>
             /\ data # NoData /\ data.error = NoText
             /\ calls["image_check"] = 1 /\ calls["image_generate"] = 1
             /\ calls["image_download"] = 1
             /\ result # NoData
        /\ calls["image_download"] <= calls["image_generate"]
        /\ calls["image_generate"] <= calls["image_check"]

\* C23 witness: the download raised an error that names both the content
\* policy and an invalid prompt, answered with the content-policy message
C23_Witness ==
    /\ ImageDone /\ data # NoData
    /\ data.error = <<"content_policy", Blank, "invalid">>
    /\ calls["image_download"] = 1
    /\ status = 400 /\ detail = PolicyMsg

\* a text without blanks at its ends, and one without a fence at its ends
Stripped(t) == t = <<>> \/ (t[1] # Blank /\ t[Len(t)] # Blank)
NoFenceAtEnds(t) == t = <<>> \/ (t[1] # Fence /\ t[Len(t)] # Fence)

\* a text that, its outer blanks aside, has fences only as one opening fence
\* (bare or followed by json) at its start and one closing fence at its end
SingleBlock(t) ==
    LET s == Strip(t)
        a == IF StartsWith(s, <<Fence, "json">>) THEN 3
             ELSE IF StartsWith(s, <<Fence>>) THEN 2 ELSE 1
        b == IF s # <<>> /\ s[Len(s)] = Fence THEN Len(s) - 1 ELSE Len(s)
    IN \A i \in a..b : s[i] # Fence

====
